---------------------------- MODULE Spec2Model ----------------------------
(***************************************************************************)
(* State-machine model of the two console games of the repository:         *)
(*   treasure_hunter/treasure_hunter.cpp  (turn based, grid of objects)    *)
(*   space_defender/space_defender.cpp    (real time, enemies and bullets) *)
(* A behaviour is a run of ONE of the two programs: Init picks the program *)
(* (variable game) and only that program's loop iteration is enabled.      *)
(* One step of the model is one iteration of the program's main loop.      *)
(***************************************************************************)
EXTENDS Integers, Sequences, FiniteSets

VARIABLES
    game,        \* which of the two programs is running
    manager,     \* GameManager: score, gameOver (+ level, treasuresToWin)
    player,      \* Player: x, y (+ fireCooldown in space defender)
    objects,     \* treasure hunter GameField::objects, in storage order
    bullets,     \* space defender Player::bullets, in storage order
    enemies,     \* space defender main()'s enemies, in storage order
    key,         \* the character read by the last loop iteration
    moved,       \* whether the last iteration's move command changed x or y
    events,      \* the notifications delivered to the manager by the last iteration
    collisions,  \* the collisions the last iteration detected, in order
    trapCall,    \* the locals of the last iteration's addTrap() call
    trail,       \* the manager at the start of the last iteration and after each
                 \* call the iteration made on it (endGame, onNotify), in order
    scene,       \* space defender: the enemies and bullets of the last iteration
                 \* after the updates and before the collision checks
    ticks        \* loop iterations made so far, where the run's length is bounded

vars == <<game, manager, player, objects, bullets, enemies, key, moved,
          events, collisions, trapCall, trail, scene, ticks>>

TreasureHunter == "treasure_hunter"
SpaceDefender == "space_defender"

(***************************************************************************)
(* Bounds of the exploration (not program constants).                      *)
(***************************************************************************)
\* treasure hunter: loop iterations (turns) explored per run
MaxTurns == 4
\* space defender: loop iterations (frames) explored per run
MaxFrames == 11
\* space defender: enemies on screen at once
MaxEnemies == 2
\* space defender: frames explored per run of a long volley (four shots
\* need 16 frames)
MaxVolleyFrames == 16

-----------------------------------------------------------------------------
(***************************************************************************)
(*                           TREASURE HUNTER                               *)
(***************************************************************************)
FIELD_WIDTH == 10
FIELD_HEIGHT == 6
\* the cap of addTrap's rejection sampling
MaxAttempts == 50
\* createRandomObject draws from 0..TrapOdds, 0 makes a trap
TrapOdds == 4

NoKey == "none"

\* GameManager::GameManager / GameManager::init
ManagerInitTH == [score |-> 0, gameOver |-> FALSE, level |-> 1, treasuresToWin |-> 3]

\* mutant of LevelUp: the threshold raised by 1 instead of 2
LevelUp_SmallStep(m) ==
    [m EXCEPT !.level = m.level + 1,
              !.treasuresToWin = m.treasuresToWin + 1,
              !.score = 0]

\* GameManager::levelUp
LevelUp(m) ==
    [m EXCEPT !.level = m.level + 1,
              !.treasuresToWin = m.treasuresToWin + 2,
              !.score = 0]

\* mutant of AddScoreTH: the level-up test written > for >=
AddScoreTH_Late(m, points) ==
    LET m1 == [m EXCEPT !.score = m.score + points]
    IN  IF m1.score > m1.treasuresToWin THEN LevelUp(m1) ELSE m1

\* GameManager::addScore (treasure hunter)
AddScoreTH(m, points) ==
    LET m1 == [m EXCEPT !.score = m.score + points]
    IN  IF m1.score >= m1.treasuresToWin THEN LevelUp(m1) ELSE m1

\* mutant of EndGame: the flag flipped instead of set
EndGame_Toggle(m) == [m EXCEPT !.gameOver = ~m.gameOver]

\* GameManager::endGame (both programs)
EndGame(m) == [m EXCEPT !.gameOver = TRUE]

\* GameManager::onNotify (treasure hunter)
OnNotifyTH(m, event) ==
    CASE event = "TreasureCollected" -> AddScoreTH(m, 1)
      [] event = "TrapTriggered" -> EndGame(m)
      [] OTHER -> m

\* GameObjectFactory::createObject
CreateObject(type, x, y) ==
    CASE type = "Treasure" -> [x |-> x, y |-> y, symbol |-> "T", active |-> TRUE]
      [] type = "Trap" -> [x |-> x, y |-> y, symbol |-> "X", active |-> TRUE]

\* GameObjectFactory::createRandomObject; draw is dist(gen)
CreateRandomObject(x, y, draw) ==
    IF draw = 0 THEN CreateObject("Trap", x, y) ELSE CreateObject("Treasure", x, y)

\* Player::Player (treasure hunter)
PlayerInitTH == [x |-> FIELD_WIDTH \div 2, y |-> FIELD_HEIGHT \div 2]

\* Player::move
Move(p, dx, dy) ==
    LET newX == p.x + dx
        newY == p.y + dy
    IN  IF newX >= 0 /\ newX < FIELD_WIDTH /\ newY >= 0 /\ newY < FIELD_HEIGHT
        THEN [p EXCEPT !.x = newX, !.y = newY]
        ELSE p

\* The random draws of one generateField() call, one per cell. The runs
\* explored take them from this family: seed s makes the cells with
\* (x + 2y + s) % 5 = 0 traps, about one cell in five as in the program.
FieldDraws(seed) == [c \in (0..FIELD_WIDTH-1) \X (0..FIELD_HEIGHT-1) |->
                        (c[1] + 2 * c[2] + seed) % (TrapOdds + 1)]
LayoutSeeds == {1, 2}

\* GameField::generateField: row by row, skipping the player's start cell
RECURSIVE GenerateFieldFrom(_, _)
GenerateFieldFrom(i, draws) ==
    IF i >= FIELD_WIDTH * FIELD_HEIGHT THEN <<>>
    ELSE LET x == i % FIELD_WIDTH
             y == i \div FIELD_WIDTH
             rest == GenerateFieldFrom(i + 1, draws)
         IN  IF x # FIELD_WIDTH \div 2 \/ y # FIELD_HEIGHT \div 2
             THEN <<CreateRandomObject(x, y, draws[<<x, y>>])>> \o rest
             ELSE rest

GenerateField(draws) == GenerateFieldFrom(0, draws)

\* GameField::getObjectAt: the index of the first object in storage order
\* that is active and on the cell, 0 for nullptr
GetObjectAt(objs, x, y) ==
    LET found == {i \in 1..Len(objs) : objs[i].active /\ objs[i].x = x /\ objs[i].y = y}
    IN  IF found = {} THEN 0
        ELSE CHOOSE i \in found : \A j \in found : i <= j

\* mutant of RemoveObject: every object from the found one on is deactivated
RemoveObject_Rest(objs, object) ==
    [i \in DOMAIN objs |-> IF i >= object THEN [objs[i] EXCEPT !.active = FALSE] ELSE objs[i]]

\* GameField::removeObject: the pointer is the object's index
RemoveObject(objs, object) ==
    IF object \in 1..Len(objs)
    THEN [objs EXCEPT ![object].active = FALSE]
    ELSE objs

\* mutant of AddTrapLoop: the occupancy test inverted (resample while free)
RECURSIVE AddTrapLoop_Inverted(_, _, _)
AddTrapLoop_Inverted(objs, samples, attempts) ==
    LET x == samples[attempts + 1][1]
        y == samples[attempts + 1][2]
        n == attempts + 1
    IN  IF GetObjectAt(objs, x, y) = 0 /\ n < MaxAttempts
        THEN AddTrapLoop_Inverted(objs, samples, n)
        ELSE [x |-> x, y |-> y, attempts |-> n]

\* mutant of AddTrapLoop: the first sample is taken without the occupancy test
AddTrapLoop_FirstSample(objs, samples, attempts) ==
    [x |-> samples[attempts + 1][1], y |-> samples[attempts + 1][2], attempts |-> attempts + 1]

\* GameField::addTrap, the do-while loop: samples is the stream the fresh
\* generator yields, attempts the number of samples already taken.
\* Returns the locals x, y, attempts at the loop's exit.
RECURSIVE AddTrapLoop(_, _, _)
AddTrapLoop(objs, samples, attempts) ==
    LET x == samples[attempts + 1][1]
        y == samples[attempts + 1][2]
        n == attempts + 1
    IN  IF GetObjectAt(objs, x, y) # 0 /\ n < MaxAttempts
        THEN AddTrapLoop(objs, samples, n)
        ELSE [x |-> x, y |-> y, attempts |-> n]

\* mutant of AddTrapPush: the test written <= for <
AddTrapPush_Inclusive(objs, loc) ==
    IF loc.attempts <= MaxAttempts
    THEN Append(objs, CreateObject("Trap", loc.x, loc.y))
    ELSE objs

\* GameField::addTrap, the push after the loop
AddTrapPush(objs, loc) ==
    IF loc.attempts < MaxAttempts
    THEN Append(objs, CreateObject("Trap", loc.x, loc.y))
    ELSE objs

\* GameField::draw: what is printed for cell (x, y)
GlyphAt(objs, playerX, playerY, x, y) ==
    IF x = playerX /\ y = playerY THEN "@"
    ELSE LET found == {i \in DOMAIN objs :
                          objs[i].active /\ objs[i].x = x /\ objs[i].y = y}
         IN  IF found = {} THEN "."
             ELSE objs[CHOOSE i \in found : \A j \in found : i <= j].symbol

\* The sample streams explored: the corner cell is drawn switch-1 times, then
\* cell b for the rest of the MaxAttempts draws. The corner stays occupied in
\* every run explored (the player cannot reach it within MaxTurns moves).
SampleStream(switch, a, b) == [i \in 1..MaxAttempts |-> IF i < switch THEN a ELSE b]
Corner == <<0, 0>>
Centre == <<FIELD_WIDTH \div 2, FIELD_HEIGHT \div 2>>
SampleCells == {Centre, <<5, 2>>}
SampleStreams ==
    {SampleStream(k, Corner, b) : k \in {1, 2}, b \in SampleCells}
    \cup {SampleStream(MaxAttempts, Corner, Centre), SampleStream(MaxAttempts + 1, Corner, Corner)}

NoTrapCall == [called |-> FALSE, x |-> 0, y |-> 0, attempts |-> 0]

\* no enemies and no bullets: treasure hunter, and space defender at its start
NoScene == [enemies |-> <<>>, bullets |-> <<>>]

\* the characters typed at treasure hunter's prompt in the runs explored
KeysTH == {"w", "s", "a", "d", "q", "Q", "x"}

\* main(), treasure hunter: the key switch
CommandTH(k) ==
    CASE k \in {"w", "W"} -> [kind |-> "move", dx |-> 0, dy |-> -1]
      [] k \in {"s", "S"} -> [kind |-> "move", dx |-> 0, dy |-> 1]
      [] k \in {"a", "A"} -> [kind |-> "move", dx |-> -1, dy |-> 0]
      [] k \in {"d", "D"} -> [kind |-> "move", dx |-> 1, dy |-> 0]
      [] k \in {"q", "Q"} -> [kind |-> "quit"]
      [] OTHER -> [kind |-> "invalid"]

\* main(), treasure hunter: the collision handling after a move command
CollideTH(st, samples) ==
    LET hit == GetObjectAt(st.objects, st.player.x, st.player.y)
        s1 == [st EXCEPT !.collisions = IF hit = 0 THEN <<>> ELSE <<[object |-> hit]>>]
    IN  IF hit = 0 THEN s1
        ELSE IF st.objects[hit].symbol = "T" THEN
            LET removed == RemoveObject(st.objects, hit)
                loc == AddTrapLoop(removed, samples, 0)
            IN  [s1 EXCEPT !.manager = OnNotifyTH(st.manager, "TreasureCollected"),
                           !.trail = Append(@, OnNotifyTH(st.manager, "TreasureCollected")),
                           !.events = <<[type |-> "TreasureCollected"]>>,
                           !.objects = AddTrapPush(removed, loc),
                           !.trapCall = [called |-> TRUE, x |-> loc.x, y |-> loc.y,
                                         attempts |-> loc.attempts]]
        ELSE IF st.objects[hit].symbol = "X" THEN
            [s1 EXCEPT !.manager = OnNotifyTH(st.manager, "TrapTriggered"),
                       !.trail = Append(@, OnNotifyTH(st.manager, "TrapTriggered")),
                       !.events = <<[type |-> "TrapTriggered"]>>]
        ELSE s1

\* main(), treasure hunter: one loop iteration from state st under key k and
\* the sample stream an addTrap call would draw
StepTH(st, k, samples) ==
    LET quiet == [st EXCEPT !.key = k, !.moved = FALSE, !.events = <<>>,
                            !.collisions = <<>>, !.trapCall = NoTrapCall,
                            !.trail = <<st.manager>>]
        cmd == CommandTH(k)
    IN  CASE cmd.kind = "move" ->
                LET p == Move(st.player, cmd.dx, cmd.dy)
                IN  CollideTH([quiet EXCEPT !.player = p, !.moved = (p # st.player)], samples)
          [] cmd.kind = "quit" -> [quiet EXCEPT !.manager = EndGame(st.manager),
                                                !.trail = Append(@, EndGame(st.manager))]
          [] OTHER -> quiet

\* whether the iteration under key k from st calls addTrap
CollectsTH(st, k) ==
    LET n == StepTH(st, k, SampleStream(1, <<0, 0>>, <<0, 0>>)) IN n.trapCall.called

\* the part of the state a loop iteration reads and writes
Cur == [manager |-> manager, player |-> player, objects |-> objects,
        bullets |-> bullets, enemies |-> enemies, key |-> key, moved |-> moved,
        events |-> events, collisions |-> collisions, trapCall |-> trapCall,
        trail |-> trail, scene |-> scene]

Becomes(n) ==
    /\ manager' = n.manager
    /\ player' = n.player
    /\ objects' = n.objects
    /\ bullets' = n.bullets
    /\ enemies' = n.enemies
    /\ key' = n.key
    /\ moved' = n.moved
    /\ events' = n.events
    /\ collisions' = n.collisions
    /\ trapCall' = n.trapCall
    /\ trail' = n.trail
    /\ scene' = n.scene

\* mutant of TickTH: the loop does not test the game-over flag
TickTH_NoHalt ==
    /\ game = TreasureHunter
    /\ ticks < MaxTurns
    /\ \E k \in KeysTH :
         \E samples \in (IF CollectsTH(Cur, k) THEN SampleStreams
                         ELSE {SampleStream(1, <<0, 0>>, <<0, 0>>)}) :
            \E n \in {StepTH(Cur, k, samples)} : Becomes(n)
    /\ ticks' = ticks + 1
    /\ UNCHANGED game

\* main(), treasure hunter: while (!game.isGameOver()) { ... }
TickTH ==
    /\ game = TreasureHunter
    /\ ~manager.gameOver
    /\ ticks < MaxTurns
    /\ \E k \in KeysTH :
         \E samples \in (IF CollectsTH(Cur, k) THEN SampleStreams
                         ELSE {SampleStream(1, <<0, 0>>, <<0, 0>>)}) :
            \E n \in {StepTH(Cur, k, samples)} : Becomes(n)
    /\ ticks' = ticks + 1
    /\ UNCHANGED game

InitTH ==
    /\ game = TreasureHunter
    /\ manager = ManagerInitTH
    /\ player = PlayerInitTH
    /\ \E seed \in LayoutSeeds : objects = GenerateField(FieldDraws(seed))
    /\ bullets = <<>>
    /\ enemies = <<>>
    /\ key = NoKey
    /\ moved = FALSE
    /\ events = <<>>
    /\ collisions = <<>>
    /\ trapCall = NoTrapCall
    /\ trail = <<manager>>
    /\ scene = NoScene
    /\ ticks = 0

SpecTH == InitTH /\ [][TickTH]_vars

-----------------------------------------------------------------------------
(***************************************************************************)
(*                            SPACE DEFENDER                               *)
(***************************************************************************)
\* GameManager::GameManager: screenWidth(80), screenHeight(24)
SCREEN_WIDTH == 80
SCREEN_HEIGHT == 24
\* Player::Player: GameObject(40, 20, 'A')
PlayerStartX == 40
PlayerRow == 20
\* FastEnemy / ToughEnemy: Enemy(x, 3, ...)
EnemyStartRow == 3
FastSpeed == 2
ToughSpeed == 1
ToughHealth == 2
\* Player::fire: fireCooldown = 5
FireCooldown == 5
\* GameManager::onNotify: addScore(10)
EnemyPoints == 10

\* GameManager::GameManager / GameManager::init (space defender)
ManagerInitSD == [score |-> 0, gameOver |-> FALSE]

\* GameManager::addScore (space defender)
AddScoreSD(m, points) == [m EXCEPT !.score = m.score + points]

\* GameManager::onNotify (space defender)
OnNotifySD(m, event) ==
    CASE event = "EnemyHit" -> AddScoreSD(m, EnemyPoints)
      [] event = "PlayerHit" -> EndGame(m)
      [] OTHER -> m

\* Player::Player (space defender)
PlayerInitSD ==
    [x |-> PlayerStartX, y |-> PlayerRow, symbol |-> "A", fireCooldown |-> 0, active |-> TRUE]

\* mutant of FastEnemy: constructed with the tough enemy's speed
FastEnemy_Slow(x) ==
    [kind |-> "FastEnemy", x |-> x, y |-> EnemyStartRow, symbol |-> "F",
     speed |-> ToughSpeed, active |-> TRUE, hits |-> 0]

\* FastEnemy::FastEnemy; hits counts the collisions registered on the object
FastEnemy(x) ==
    [kind |-> "FastEnemy", x |-> x, y |-> EnemyStartRow, symbol |-> "F",
     speed |-> FastSpeed, active |-> TRUE, hits |-> 0]

\* ToughEnemy::ToughEnemy
ToughEnemy(x) ==
    [kind |-> "ToughEnemy", x |-> x, y |-> EnemyStartRow, symbol |-> "T",
     speed |-> ToughSpeed, health |-> ToughHealth, active |-> TRUE, hits |-> 0]

\* EnemyFactory::createRandomEnemy; type is typeDist(gen), x is posDist(gen)
CreateRandomEnemy(type, x) ==
    IF type = 0 THEN FastEnemy(x) ELSE ToughEnemy(x)

\* Bullet::Bullet
Bullet(startX, startY) ==
    [x |-> startX, y |-> startY, symbol |-> "|", active |-> TRUE, hits |-> 0]

\* Enemy::update
EnemyUpdate(e) ==
    IF ~e.active THEN e
    ELSE LET y == e.y + e.speed
         IN  [e EXCEPT !.y = y, !.active = ~(y > SCREEN_HEIGHT)]

\* Bullet::update
BulletUpdate(b) ==
    IF ~b.active THEN b
    ELSE LET y == b.y - 1
         IN  [b EXCEPT !.y = y, !.active = ~(y <= 1)]

\* std::remove_if + erase of the objects that are not active
EraseInactive(seq) == SelectSeq(seq, LAMBDA o : o.active)

\* Player::update: returns the player and its bullets
PlayerUpdate(p, bs) ==
    [player |-> IF p.fireCooldown > 0
                THEN [p EXCEPT !.fireCooldown = p.fireCooldown - 1] ELSE p,
     bullets |-> EraseInactive([i \in DOMAIN bs |-> BulletUpdate(bs[i])])]

\* mutant of MoveLeft: the bound written >= for >
MoveLeft_OffByOne(p) == IF p.x >= 1 THEN [p EXCEPT !.x = p.x - 1] ELSE p

\* Player::moveLeft
MoveLeft(p) == IF p.x > 1 THEN [p EXCEPT !.x = p.x - 1] ELSE p

\* Player::moveRight
MoveRight(p) == IF p.x < SCREEN_WIDTH - 2 THEN [p EXCEPT !.x = p.x + 1] ELSE p

\* mutant of Fire: the cooldown is not tested
Fire_NoCooldownTest(p, bs) ==
    [player |-> [p EXCEPT !.fireCooldown = FireCooldown],
     bullets |-> Append(bs, Bullet(p.x, p.y - 1))]

\* Player::fire: returns the player and its bullets
Fire(p, bs) ==
    IF p.fireCooldown = 0
    THEN [player |-> [p EXCEPT !.fireCooldown = FireCooldown],
          bullets |-> Append(bs, Bullet(p.x, p.y - 1))]
    ELSE [player |-> p, bullets |-> bs]

\* GameObject::draw: the glyphs the object puts on the screen
DrawObject(o) ==
    IF o.active THEN {[x |-> o.x, y |-> o.y, symbol |-> o.symbol]} ELSE {}

\* Player::draw
DrawPlayer(p, bs) == DrawObject(p) \cup UNION {DrawObject(bs[i]) : i \in DOMAIN bs}

\* main(), space defender: the frame drawn at the end of an iteration
DrawFrame(p, bs, ens) == DrawPlayer(p, bs) \cup UNION {DrawObject(ens[i]) : i \in DOMAIN ens}

\* Player::checkCollision
CheckCollision(p, other) ==
    p.active /\ other.active /\ p.x = other.x /\ p.y = other.y

\* mutant of SetActiveBase: the flag is not assigned
SetActiveBase_Keep(o, active) == o

\* GameObject::setActive, as FastEnemy and Bullet inherit it: no notification
SetActiveBase(o, active) == [o EXCEPT !.active = active]

\* mutant of SetActiveTough: the notification written outside the health test
SetActiveTough_EveryHit(e, active) ==
    IF active THEN [enemy |-> [e EXCEPT !.active = TRUE], notified |-> FALSE]
    ELSE LET health == e.health - 1
         IN  [enemy |-> [e EXCEPT !.health = health, !.active = ~(health <= 0)],
              notified |-> TRUE]

\* ToughEnemy::setActive: returns the enemy and whether it notified EnemyHit
SetActiveTough(e, active) ==
    IF active THEN [enemy |-> [e EXCEPT !.active = TRUE], notified |-> FALSE]
    ELSE LET health == e.health - 1
         IN  IF health <= 0
             THEN [enemy |-> [e EXCEPT !.health = health, !.active = FALSE],
                   notified |-> TRUE]
             ELSE [enemy |-> [e EXCEPT !.health = health], notified |-> FALSE]

\* enemy->setActive(active) through the virtual table
SetActive(e, active) ==
    IF e.kind = "ToughEnemy" THEN SetActiveTough(e, active)
    ELSE [enemy |-> SetActiveBase(e, active), notified |-> FALSE]

\* mutant of Collides: the bullet's active flag is not tested
Collides_AnyBullet(enemy, bullet) ==
    enemy.active /\ enemy.x = bullet.x /\ enemy.y = bullet.y

\* mutant of Collides: a bullet one row above the enemy counts as a hit too
Collides_Crossing(enemy, bullet) ==
    /\ enemy.active /\ bullet.active /\ enemy.x = bullet.x
    /\ enemy.y - bullet.y \in {0, 1}

\* main(): the test of the bullet/enemy collision loop
Collides(enemy, bullet) ==
    enemy.active /\ bullet.active /\ enemy.x = bullet.x /\ enemy.y = bullet.y

\* main(): the collision loops, from enemy i and bullet j on. c holds the
\* enemies, the bullets, the manager and the logs of events and collisions.
RECURSIVE CollisionLoop(_, _, _, _)
CollisionLoop(c, p, i, j) ==
    IF i > Len(c.enemies) THEN c
    ELSE IF j <= Len(c.bullets) THEN
        IF Collides(c.enemies[i], c.bullets[j])
        THEN LET b == [SetActiveBase(c.bullets[j], FALSE) EXCEPT !.hits = @ + 1]
                 r == SetActive([c.enemies[i] EXCEPT !.hits = @ + 1], FALSE)
                 c1 == [c EXCEPT !.bullets[j] = b,
                                 !.enemies[i] = r.enemy,
                                 !.collisions = Append(@, [enemy |-> i, bullet |-> j,
                                                           target |-> r.enemy]),
                                 !.manager = IF r.notified THEN OnNotifySD(@, "EnemyHit") ELSE @,
                                 !.trail = IF r.notified
                                           THEN Append(@, OnNotifySD(c.manager, "EnemyHit"))
                                           ELSE @,
                                 !.events = IF r.notified
                                            THEN Append(@, [type |-> "EnemyHit", enemy |-> i,
                                                            entity |-> r.enemy])
                                            ELSE @]
             IN  CollisionLoop(c1, p, i, j + 1)
        ELSE CollisionLoop(c, p, i, j + 1)
    ELSE IF CheckCollision(p, c.enemies[i])
        THEN CollisionLoop([c EXCEPT !.manager = OnNotifySD(@, "PlayerHit"),
                                     !.trail = Append(@, OnNotifySD(c.manager, "PlayerHit")),
                                     !.events = Append(@, [type |-> "PlayerHit", enemy |-> i,
                                                           entity |-> c.enemies[i]])],
                           p, i + 1, 1)
        ELSE CollisionLoop(c, p, i + 1, 1)

NoSpawn == [spawn |-> FALSE]

\* mutant of CommandSD: the switch falls through to fire for other keys
CommandSD_DefaultFires(st, k) ==
    LET same == [player |-> st.player, bullets |-> st.bullets, manager |-> st.manager]
        f == Fire(st.player, st.bullets)
    IN  CASE k = "a" -> [same EXCEPT !.player = MoveLeft(st.player)]
          [] k = "d" -> [same EXCEPT !.player = MoveRight(st.player)]
          [] k = "q" -> [same EXCEPT !.manager = EndGame(st.manager)]
          [] OTHER -> [same EXCEPT !.player = f.player, !.bullets = f.bullets]

\* main(): the key switch of space defender; returns player, bullets, manager
CommandSD(st, k) ==
    LET same == [player |-> st.player, bullets |-> st.bullets, manager |-> st.manager]
    IN  CASE k = "a" -> [same EXCEPT !.player = MoveLeft(st.player)]
          [] k = "d" -> [same EXCEPT !.player = MoveRight(st.player)]
          [] k = "f" -> LET f == Fire(st.player, st.bullets)
                        IN  [same EXCEPT !.player = f.player, !.bullets = f.bullets]
          [] k = "q" -> [same EXCEPT !.manager = EndGame(st.manager)]
          [] OTHER -> same

\* main(), space defender: one loop iteration from state st. sp says whether
\* the 1500 ms spawn timer has run out and what the factory then draws;
\* k is the key waiting (NoKey when kbhit() is false).
StepSD(st, k, sp) ==
    LET spawned == IF sp.spawn
                   THEN Append(st.enemies, CreateRandomEnemy(sp.type, sp.x))
                   ELSE st.enemies
        cmd == IF k = NoKey
               THEN [player |-> st.player, bullets |-> st.bullets, manager |-> st.manager]
               ELSE CommandSD(st, k)
        upd == PlayerUpdate(cmd.player, cmd.bullets)
        ens == [i \in DOMAIN spawned |-> EnemyUpdate(spawned[i])]
        c == CollisionLoop([enemies |-> ens, bullets |-> upd.bullets,
                            manager |-> cmd.manager, events |-> <<>>,
                            collisions |-> <<>>,
                            trail |-> IF k = "q" THEN <<st.manager, cmd.manager>>
                                      ELSE <<st.manager>>],
                           upd.player, 1, 1)
    IN  [st EXCEPT !.manager = c.manager,
                   !.player = upd.player,
                   !.bullets = c.bullets,
                   !.enemies = EraseInactive(c.enemies),
                   !.key = k,
                   !.moved = (upd.player.x # st.player.x),
                   !.events = c.events,
                   !.collisions = c.collisions,
                   !.trail = c.trail,
                   !.scene = [enemies |-> ens, bullets |-> upd.bullets]]

\* the keys pressed in the runs explored: standing and shooting
KeysSD == {NoKey, "f", "q", "x"}
\* the keys pressed in the runs explored: walking without shooting
WalkKeysSD == {NoKey, "a", "d", "q", "A", "x"}
\* the columns posDist(gen) yields in the runs explored
SpawnCols == {PlayerStartX}
Spawns == {NoSpawn} \cup {[spawn |-> TRUE, type |-> t, x |-> x] : t \in {0, 1}, x \in SpawnCols}

\* main(), space defender: while (!game.isGameOver()) { ... }
TickSD ==
    /\ game = SpaceDefender
    /\ ~manager.gameOver
    /\ ticks < MaxFrames
    /\ \E k \in KeysSD :
         \E sp \in Spawns :
            /\ sp.spawn => Len(enemies) < MaxEnemies
            /\ \E n \in {StepSD(Cur, k, sp)} : Becomes(n)
    /\ ticks' = ticks + 1
    /\ UNCHANGED game

InitSD ==
    /\ game = SpaceDefender
    /\ manager = ManagerInitSD
    /\ player = PlayerInitSD
    /\ objects = <<>>
    /\ bullets = <<>>
    /\ enemies = <<>>
    /\ key = NoKey
    /\ moved = FALSE
    /\ events = <<>>
    /\ collisions = <<>>
    /\ trapCall = NoTrapCall
    /\ trail = <<manager>>
    /\ scene = NoScene
    /\ ticks = 0

\* main(), space defender: the same loop, under the walking keys, with one
\* enemy on screen at a time and no bound on the number of frames
WalkSD ==
    /\ game = SpaceDefender
    /\ ~manager.gameOver
    /\ \E k \in WalkKeysSD :
         \E sp \in Spawns :
            /\ sp.spawn => enemies = <<>>
            /\ \E n \in {StepSD(Cur, k, sp)} : Becomes(n)
    /\ UNCHANGED <<game, ticks>>

\* main(), space defender: the same loop over a long volley: standing and
\* shooting, with one enemy on screen at a time
VolleySD ==
    /\ game = SpaceDefender
    /\ ~manager.gameOver
    /\ ticks < MaxVolleyFrames
    /\ \E k \in KeysSD :
         \E sp \in Spawns :
            /\ sp.spawn => enemies = <<>>
            /\ \E n \in {StepSD(Cur, k, sp)} : Becomes(n)
    /\ ticks' = ticks + 1
    /\ UNCHANGED game

SpecSD == InitSD /\ [][TickSD]_vars

SpecVolley == InitSD /\ [][VolleySD]_vars

Init == InitTH \/ InitSD
Next == TickTH \/ TickSD
Spec == Init /\ [][Next]_vars

\* both programs, space defender under the walking keys
NextWalk == TickTH \/ WalkSD
SpecWalk == Init /\ [][NextWalk]_vars

-----------------------------------------------------------------------------
(***************************************************************************)
(*                              PROPERTIES                                 *)
(***************************************************************************)
\* the sequence's elements
Range(seq) == {seq[i] : i \in DOMAIN seq}

\* the events of one type in a log of delivered events
EventsIn(evs, type) == {i \in DOMAIN evs : evs[i].type = type}

\* the events of one type among those the last iteration delivered
EventsOf(type) == EventsIn(events, type)

\* treasure hunter: the treasures collected so far
Collected == Cardinality({i \in DOMAIN objects : objects[i].symbol = "T" /\ ~objects[i].active})

\* C1: treasure hunter starts at level 1, threshold 3, score 0. Every
\* iteration that delivers TreasureCollected either adds exactly 1 to the
\* score and leaves level and threshold alone (score + 1 below the
\* threshold), or sets the score to 0, adds exactly 1 to the level and
\* exactly 2 to the threshold (score + 1 reaches it). After 3 collections
\* the manager is at level 2, threshold 5, score 0.
C1_CollectStep ==
    (game = TreasureHunter /\ EventsIn(events', "TreasureCollected") # {}) =>
        IF manager.score + 1 < manager.treasuresToWin
        THEN manager' = [manager EXCEPT !.score = manager.score + 1]
        ELSE manager' = [manager EXCEPT !.score = 0,
                                        !.level = manager.level + 1,
                                        !.treasuresToWin = manager.treasuresToWin + 2]

C1_TreasureScoring ==
    /\ (game = TreasureHunter => manager = [score |-> 0, gameOver |-> FALSE,
                                             level |-> 1, treasuresToWin |-> 3])
    /\ [][C1_CollectStep]_vars
    /\ []((game = TreasureHunter /\ Collected = 3) =>
            (manager.level = 2 /\ manager.treasuresToWin = 5 /\ manager.score = 0))

\* C1 witness: the third treasure has just been collected and the level went up
C1_Witness ==
    /\ game = TreasureHunter
    /\ Collected = 3
    /\ EventsOf("TreasureCollected") # {}
    /\ manager.level = 2 /\ manager.treasuresToWin = 5 /\ manager.score = 0

\* the collisions of the last frame whose target is a tough enemy
ToughCollisions == {i \in DOMAIN collisions : collisions[i].target.kind = "ToughEnemy"}

\* the EnemyHit events of a log raised by enemy number e
EnemyHitsIn(evs, e) == {i \in EventsIn(evs, "EnemyHit") : evs[i].enemy = e}

\* the EnemyHit events of the last frame raised by enemy number e
EnemyHitsOf(e) == EnemyHitsIn(events, e)

\* C2: space defender, tough enemies. The first bullet collision leaves the
\* enemy active and raises no event; the second deactivates it and delivers
\* EnemyHit, once; an enemy is never hit a third time, no enemy raises
\* EnemyHit twice, and an enemy that went inactive is gone from the list
\* before the next frame, so nothing is delivered for it afterwards.
C2_ToughEnemyTwoHits ==
    game = SpaceDefender =>
        /\ \A i \in DOMAIN enemies :
              /\ enemies[i].active
              /\ enemies[i].kind = "ToughEnemy" =>
                    /\ enemies[i].hits \in {0, 1}
                    /\ enemies[i].health = ToughHealth - enemies[i].hits
        /\ \A i \in ToughCollisions :
              LET c == collisions[i]
              IN  /\ c.target.hits \in {1, 2}
                  /\ c.target.hits = 1 => (c.target.active /\ EnemyHitsOf(c.enemy) = {})
                  /\ c.target.hits = 2 =>
                        (~c.target.active /\ Cardinality(EnemyHitsOf(c.enemy)) = 1)
        /\ \A i \in EventsOf("EnemyHit") :
              /\ Cardinality(EnemyHitsOf(events[i].enemy)) = 1
              /\ events[i].entity.kind = "ToughEnemy" =>
                    (events[i].entity.hits = 2 /\ ~events[i].entity.active)

\* C2 witness: a tough enemy took its second hit in the last frame and its
\* EnemyHit was delivered
C2_Witness ==
    /\ game = SpaceDefender
    /\ \E i \in ToughCollisions :
          /\ collisions[i].target.hits = 2
          /\ EnemyHitsOf(collisions[i].enemy) # {}

\* the hits an enemy of this kind takes before it is destroyed
HitsToKill(e) == IF e.kind = "ToughEnemy" THEN 2 ELSE 1

\* the collisions of a log that brought an enemy's remaining hits to zero
KillsIn(cols) == {i \in DOMAIN cols : cols[i].target.hits = HitsToKill(cols[i].target)}

\* C3: space defender. A bullet collision that brings an enemy's remaining
\* hits to zero (a fast enemy's first, a tough enemy's second) deactivates
\* the enemy and raises EnemyHit, and the score goes up by 10 in that frame.
C3_KillStep ==
    game = SpaceDefender =>
        /\ \A i \in KillsIn(collisions') :
              /\ ~collisions'[i].target.active
              /\ EnemyHitsIn(events', collisions'[i].enemy) # {}
        /\ manager'.score = manager.score + EnemyPoints * Cardinality(KillsIn(collisions'))

C3_KillScores == [][C3_KillStep]_vars

\* C4: in both programs a TrapTriggered (treasure hunter) or PlayerHit (space
\* defender) event delivered to the manager sets the game-over flag whatever
\* the score, level and threshold are, and changes nothing else; delivered
\* again with the flag already set it leaves the manager as it is.
C4_EndEvent == IF game = TreasureHunter THEN "TrapTriggered" ELSE "PlayerHit"

C4_Deliver(m) == IF game = TreasureHunter THEN OnNotifyTH(m, C4_EndEvent)
                 ELSE OnNotifySD(m, C4_EndEvent)

C4_ManagerNow ==
    /\ C4_Deliver(manager) = [manager EXCEPT !.gameOver = TRUE]
    /\ C4_Deliver(C4_Deliver(manager)) = C4_Deliver(manager)
    /\ manager.gameOver => C4_Deliver(manager) = manager
    /\ EventsOf(C4_EndEvent) # {} => manager.gameOver

C4_DeliveryStep ==
    EventsIn(events', C4_EndEvent) # {} =>
        IF game = TreasureHunter
        THEN manager' = [manager EXCEPT !.gameOver = TRUE]
        ELSE manager' = [manager EXCEPT !.gameOver = TRUE,
                            !.score = @ + EnemyPoints * Cardinality(EventsIn(events', "EnemyHit"))]

C4_GameOverIdempotent == [](C4_ManagerNow) /\ [][C4_DeliveryStep]_vars

\* C4 witness: space defender, quit was pressed in the frame in which an
\* enemy reached the player, so PlayerHit arrived with the flag already set
C4_Witness ==
    /\ game = SpaceDefender
    /\ key = "q"
    /\ EventsOf("PlayerHit") # {}
    /\ manager.gameOver

\* the four treasure hunter move commands
Directions == {<<0, -1>>, <<0, 1>>, <<-1, 0>>, <<1, 0>>}

\* C5: in every reachable state the player is inside the bounds (treasure
\* hunter 0 <= x < 10 and 0 <= y < 6; space defender 1 <= x <= 78 on row 20)
\* and a move command whose target lies outside them leaves the position
\* as it is.
C5_PlayerInBounds ==
    IF game = TreasureHunter
    THEN /\ 0 <= player.x /\ player.x < 10
         /\ 0 <= player.y /\ player.y < 6
         /\ \A d \in Directions :
               LET tx == player.x + d[1]
                   ty == player.y + d[2]
               IN  (tx < 0 \/ tx >= 10 \/ ty < 0 \/ ty >= 6) =>
                       Move(player, d[1], d[2]) = player
         /\ (CommandTH(key).kind = "move" /\ ~moved) =>
               (player.x \in {0, 9} \/ player.y \in {0, 5})
    ELSE /\ 1 <= player.x /\ player.x <= 78
         /\ player.y = 20
         /\ player.x - 1 < 1 => MoveLeft(player) = player
         /\ player.x + 1 > 78 => MoveRight(player) = player
         /\ (key \in {"a", "d"} /\ ~moved) => player.x \in {1, 78}

\* C5 witness: space defender, the player stands in column 1 and the last
\* frame's move-left command did not move it
C5_Witness ==
    /\ game = SpaceDefender
    /\ player.x = 1
    /\ key = "a"
    /\ ~moved

\* the objects (of a sequence) that are active and on the cell
ActiveAt(seq, x, y) == {i \in DOMAIN seq : seq[i].active /\ seq[i].x = x /\ seq[i].y = y}

\* C6, treasure hunter, drawing: on the cell of an inactive object the field
\* shows the player, an empty cell or the glyph of an active object there
C6_DrawTH ==
    \A i \in DOMAIN objects :
        ~objects[i].active =>
            LET g == GlyphAt(objects, player.x, player.y, objects[i].x, objects[i].y)
            IN  \/ g \in {"@", "."}
                \/ \E j \in ActiveAt(objects, objects[i].x, objects[i].y) :
                      objects[j].symbol = g

\* C6, space defender, drawing: every glyph of the frame is an active
\* entity's, on that entity's cell
C6_DrawSD ==
    \A g \in DrawFrame(player, bullets, enemies) :
        \/ (g.symbol = player.symbol /\ g.x = player.x /\ g.y = player.y /\ player.active)
        \/ \E j \in ActiveAt(bullets, g.x, g.y) : bullets[j].symbol = g.symbol
        \/ \E j \in ActiveAt(enemies, g.x, g.y) : enemies[j].symbol = g.symbol

\* C6, space defender, collisions: a bullet registers at most one collision
\* and is inactive from then on; within a frame no bullet appears in two
\* collisions and an enemy that a collision left inactive appears in no
\* later one; an enemy that raises PlayerHit is active
C6_CollisionsSD ==
    /\ \A j \in DOMAIN bullets :
          /\ bullets[j].hits \in {0, 1}
          /\ bullets[j].hits = 1 => ~bullets[j].active
    /\ \A a, b \in DOMAIN collisions :
          a < b =>
              /\ collisions[a].bullet # collisions[b].bullet
              /\ collisions[a].enemy = collisions[b].enemy => collisions[a].target.active
    /\ \A i \in EventsOf("PlayerHit") : events[i].entity.active

\* C6, treasure hunter, collisions: within an iteration the cell lookup
\* returns only an object that was active, and an event is raised only by
\* such an object of the matching kind
C6_LookupStepTH ==
    game = TreasureHunter =>
        /\ \A i \in DOMAIN collisions' :
              /\ collisions'[i].object \in DOMAIN objects
              /\ objects[collisions'[i].object].active
        /\ \A i \in DOMAIN events' :
              /\ collisions' # <<>>
              /\ objects[collisions'[1].object].symbol =
                    (IF events'[i].type = "TreasureCollected" THEN "T" ELSE "X")

\* C6: in every iteration of both programs an object whose active flag is
\* false is not drawn and takes part in no collision
C6_InactiveExcluded ==
    /\ [](IF game = TreasureHunter THEN C6_DrawTH ELSE C6_DrawSD /\ C6_CollisionsSD)
    /\ [][C6_LookupStepTH]_vars

\* C6 witness: space defender, a bullet that was deactivated by its hit lies
\* on a cell with two active enemies, of which it hit only the first
C6_Witness ==
    /\ game = SpaceDefender
    /\ \E j \in DOMAIN bullets :
          /\ ~bullets[j].active
          /\ bullets[j].hits = 1
          /\ Cardinality(ActiveAt(enemies, bullets[j].x, bullets[j].y)) = 2
    /\ Len(collisions) = 1

\* C7: treasure hunter, addTrap. Whenever a trap is appended to the field,
\* no active treasure or trap is on its cell at that moment.
C7_AppendStep ==
    (game = TreasureHunter /\ Len(objects') > Len(objects)) =>
        LET trap == objects'[Len(objects')]
        IN  /\ Len(objects') = Len(objects) + 1
            /\ trap.symbol = "X" /\ trap.active
            /\ \A i \in 1..Len(objects) :
                  ~(objects'[i].active /\ objects'[i].x = trap.x /\ objects'[i].y = trap.y)

C7_TrapOnFreeCell == [][C7_AppendStep]_vars

\* C7 witness: addTrap rejected an occupied cell, then appended a trap
C7_Witness ==
    /\ game = TreasureHunter
    /\ trapCall.called
    /\ trapCall.attempts = 2
    /\ Len(objects) = FIELD_WIDTH * FIELD_HEIGHT
    /\ objects[Len(objects)].x = trapCall.x /\ objects[Len(objects)].y = trapCall.y

\* C8: treasure hunter, addTrap. The sampling loop ends after at most 50
\* samples; when every sampled cell was occupied (50 samples, the last one
\* occupied too) no trap is added and nothing else changes: the objects are
\* those left by the removal of the collected treasure, the player stands
\* where the move put it and the manager is as the event left it.
C8_ExhaustedStep ==
    (/\ game = TreasureHunter
     /\ trapCall'.called
     /\ trapCall'.attempts = 50
     /\ GetObjectAt(objects', trapCall'.x, trapCall'.y) # 0) =>
        LET hit == collisions'[1].object
        IN  /\ objects' = [objects EXCEPT ![hit].active = FALSE]
            /\ player'.x = objects[hit].x /\ player'.y = objects[hit].y
            /\ manager' = OnNotifyTH(manager, "TreasureCollected")
            /\ manager'.gameOver = manager.gameOver

C8_SamplingTerminates ==
    /\ [](trapCall.attempts <= 50 /\ (trapCall.called => trapCall.attempts >= 1))
    /\ [][C8_ExhaustedStep]_vars

\* C8 witness: addTrap sampled 50 occupied cells and gave up
C8_Witness ==
    /\ game = TreasureHunter
    /\ trapCall.called
    /\ trapCall.attempts = 50
    /\ GetObjectAt(objects, trapCall.x, trapCall.y) # 0
    /\ Len(objects) = FIELD_WIDTH * FIELD_HEIGHT - 1

\* toupper() on the command letters
Upper(c) ==
    CASE c = "w" -> "W" [] c = "s" -> "S" [] c = "a" -> "A" [] c = "d" -> "D"
      [] c = "f" -> "F" [] c = "q" -> "Q" [] OTHER -> c

\* the program's own state in a step's result: without the record of the
\* key read and the logs of the iteration
Program(n) == <<n.manager, n.player, n.objects, n.bullets, n.enemies>>

ProgramNow == <<manager, player, objects, bullets, enemies>>

\* C9: in both programs every command letter is case-insensitive: from any
\* state the upper-case letter produces the same next state as the
\* lower-case one.
C9_CaseInsensitive ==
    IF game = TreasureHunter
    THEN \A c \in {"w", "s", "a", "d", "q"} : \A samples \in SampleStreams :
            Program(StepTH(Cur, Upper(c), samples)) = Program(StepTH(Cur, c, samples))
    ELSE \A c \in {"a", "d", "f", "q"} : \A sp \in Spawns :
            Program(StepSD(Cur, Upper(c), sp)) = Program(StepSD(Cur, c, sp))

\* a character that is no command letter of either program, in either case
Unrecognised == {"x"}

\* C10 as claimed: in both programs an unrecognised character skips the
\* iteration: positions, active flags, score, level, threshold and the
\* game-over flag are the same after it as before.
C10_SkipStep == key' \in Unrecognised => ProgramNow' = ProgramNow

C10_UnrecognisedSkipsTick == [][C10_SkipStep]_vars

\* C10 as amended: in treasure hunter an unrecognised character skips the
\* iteration with no state change. In space defender it is ignored: the
\* player's column does not change and no bullet is fired, but the frame is
\* not skipped, it runs exactly as a frame with no key pressed.
C10_IgnoredStep ==
    key' \in Unrecognised =>
        IF game = TreasureHunter
        THEN ProgramNow' = ProgramNow
        ELSE /\ player'.x = player.x /\ player'.y = player.y
             /\ Len(bullets') <= Len(bullets)
             /\ \E sp \in Spawns : ProgramNow' = Program(StepSD(Cur, NoKey, sp))

C10_UnrecognisedIgnored == [][C10_IgnoredStep]_vars

\* C10 witness: space defender handled a collision in a frame whose key was
\* unrecognised
C10_Witness ==
    /\ game = SpaceDefender
    /\ key \in Unrecognised
    /\ collisions # <<>>

\* C11: game over is terminal in both programs: once the game-over flag has
\* been set (by a trap, a player hit or quit), nothing done afterwards
\* changes the score, the level or the win threshold, and the flag never
\* becomes false again. The trail lists the manager's states in the order
\* the iteration produced them.
C11_GameOverTerminal ==
    \A a, b \in DOMAIN trail :
        (a < b /\ trail[a].gameOver) => trail[b] = trail[a]

\* C12: treasure hunter, player on a treasure: addTrap appends a trap
\* whenever the sampling drew a free cell within its 50 attempts, and skips
\* the trap only when all 50 sampled cells were occupied. The loop stops at
\* the first free cell, so the cell it ended on tells which case it was.
C12_SpawnStep ==
    (game = TreasureHunter /\ trapCall'.called) =>
        LET board == SubSeq(objects', 1, Len(objects))
            free == GetObjectAt(board, trapCall'.x, trapCall'.y) = 0
        IN  /\ trapCall'.attempts <= MaxAttempts
            /\ (Len(objects') = Len(objects) + 1) <=> free

C12_TrapSpawnedIfFreeCellDrawn == [][C12_SpawnStep]_vars

\* C13: treasure hunter: the trap appended after a treasure was collected
\* is never on the cell the player is standing on.
C13_AppendStep ==
    (game = TreasureHunter /\ Len(objects') > Len(objects)) =>
        ~(/\ objects'[Len(objects')].x = player'.x
          /\ objects'[Len(objects')].y = player'.y)

C13_TrapNotOnPlayer == [][C13_AppendStep]_vars

\* the characters each program's switch takes as the quit command
QuitKeys == IF game = TreasureHunter THEN {"q", "Q"} ELSE {"q"}

\* C14: in both programs the main loop halts once the game-over flag is set:
\* the quit command, from any state in which the game is being played, sets
\* the flag directly, and after game over (by quit, trap or player hit) no
\* further command is read and no further iteration is started.
C14_QuitStep ==
    /\ ~manager.gameOver
    /\ key' \in QuitKeys => (manager'.gameOver /\ Len(trail') >= 2 /\ trail'[2].gameOver)

C14_LoopHalts ==
    /\ [](manager.gameOver => ~ENABLED Next)
    /\ [][C14_QuitStep]_vars

\* C14 witness: treasure hunter was quit before the turns explored ran out,
\* and no further iteration can start
C14_Witness ==
    /\ game = TreasureHunter
    /\ manager.gameOver
    /\ key = "Q"
    /\ ticks < MaxTurns
    /\ ~ENABLED Next

\* the smallest element of a non-empty set of indices
First(S) == CHOOSE i \in S : \A j \in S : i <= j

\* the enemies that stood, active, on bullet j's cell after the updates
SharingCell(j) ==
    {i \in DOMAIN scene.enemies :
        /\ scene.enemies[i].active
        /\ scene.enemies[i].x = scene.bullets[j].x
        /\ scene.enemies[i].y = scene.bullets[j].y}

\* C15, space defender: a bullet that shared its cell with active enemies
\* hit the earliest of them in storage order and no other enemy
C15_FirstEnemyHit ==
    /\ \A c \in DOMAIN collisions :
          /\ SharingCell(collisions[c].bullet) # {}
          /\ collisions[c].enemy = First(SharingCell(collisions[c].bullet))
    /\ \A j \in DOMAIN scene.bullets :
          Cardinality({c \in DOMAIN collisions : collisions[c].bullet = j}) <= 1
    /\ \A j \in DOMAIN bullets : bullets[j].hits <= 1

\* C15, treasure hunter: the lookup returned the first active object in
\* storage order on the player's cell, and only that object was affected
C15_FirstObjectStep ==
    game = TreasureHunter =>
        LET here == {i \in DOMAIN objects :
                        /\ objects[i].active
                        /\ objects[i].x = player'.x /\ objects[i].y = player'.y}
        IN  /\ Len(collisions') <= 1
            /\ (collisions' # <<>>) <=> (here # {} /\ CommandTH(key').kind = "move")
            /\ collisions' # <<>> =>
                  /\ collisions'[1].object = First(here)
                  /\ \A i \in DOMAIN objects :
                        i # First(here) => objects'[i] = objects[i]

\* C15: the collision tie-break is storage order in both programs
C15_StorageOrderTieBreak ==
    /\ [](game = SpaceDefender => C15_FirstEnemyHit)
    /\ [][C15_FirstObjectStep]_vars

\* C15 witness: space defender, a bullet shared its cell with two active
\* enemies and hit the first of them, which is still active; the second
\* enemy was not hit
C15_Witness ==
    /\ game = SpaceDefender
    /\ Len(collisions) = 1
    /\ Cardinality(SharingCell(collisions[1].bullet)) = 2
    /\ collisions[1].enemy = 1
    /\ Len(enemies) = 2
    /\ enemies[1].hits = 1
    /\ enemies[2].hits = 0

\* C16, the hits of a frame: bullet j is in a collision exactly if, after
\* the frame's movement, it is active and an active enemy has its x and y;
\* every collision is between an enemy and a bullet with equal coordinates
C16_HitIffSameCell ==
    game = SpaceDefender =>
        /\ \A j \in DOMAIN scene.bullets :
              (\E c \in DOMAIN collisions : collisions[c].bullet = j)
                  <=> (scene.bullets[j].active /\ SharingCell(j) # {})
        /\ \A c \in DOMAIN collisions :
              LET e == scene.enemies[collisions[c].enemy]
                  b == scene.bullets[collisions[c].bullet]
              IN  e.active /\ b.active /\ e.x = b.x /\ e.y = b.y

\* C16, the movement of a frame: enemies go down by their speed (fast 2,
\* tough 1), bullets go up by 1, a bullet fired in the frame is two rows
\* above the player after it
C16_MovementStep ==
    game = SpaceDefender =>
        /\ \A i \in DOMAIN enemies :
              /\ scene'.enemies[i].x = enemies[i].x
              /\ scene'.enemies[i].y = enemies[i].y +
                    (IF enemies[i].kind = "FastEnemy" THEN 2 ELSE 1)
        /\ \A j \in DOMAIN scene'.bullets :
              \/ \E k \in DOMAIN bullets :
                    /\ bullets[k].active
                    /\ scene'.bullets[j].x = bullets[k].x
                    /\ scene'.bullets[j].y = bullets[k].y - 1
              \/ /\ key' = "f"
                 /\ scene'.bullets[j].x = player.x
                 /\ scene'.bullets[j].y = PlayerRow - 2

\* C16, passing: a bullet below an enemy in its column that is above it
\* after the frame's movement is in no collision with it
C16_PassingStep ==
    game = SpaceDefender =>
        \A i \in DOMAIN enemies : \A k \in DOMAIN bullets :
            (/\ enemies[i].active /\ bullets[k].active
             /\ enemies[i].x = bullets[k].x
             /\ bullets[k].y > enemies[i].y
             /\ bullets[k].y - 1 < scene'.enemies[i].y) =>
                \A c \in DOMAIN collisions' :
                    ~(/\ collisions'[c].enemy = i
                      /\ scene'.bullets[collisions'[c].bullet].x = bullets[k].x
                      /\ scene'.bullets[collisions'[c].bullet].y = bullets[k].y - 1)

\* C16: space defender registers a bullet/enemy hit in a frame exactly when,
\* after that frame's movement, an active bullet and an active enemy have
\* equal x and equal y; a bullet and an enemy of one column that pass each
\* other between two frames without equal coordinates do not collide.
C16_CollisionIsCellEquality ==
    /\ [](C16_HitIffSameCell)
    /\ [][C16_MovementStep /\ C16_PassingStep]_vars

\* C16 witness: a bullet has just passed an enemy of its column (it was
\* below or beside it, now it is above), and neither was hit
C16_Witness ==
    /\ game = SpaceDefender
    /\ collisions = <<>>
    /\ \E i \in DOMAIN enemies : \E j \in DOMAIN bullets :
          /\ enemies[i].active /\ bullets[j].active
          /\ enemies[i].hits = 0 /\ bullets[j].hits = 0
          /\ enemies[i].x = bullets[j].x
          /\ bullets[j].y >= 5
          /\ enemies[i].y - bullets[j].y \in {1, 2}

\* C17: treasure hunter: when a move puts the player on a cell with an
\* active treasure, that iteration delivers exactly one TreasureCollected
\* event and no other, deactivates exactly that treasure, appends at most
\* one trap, leaves every other object's position and active flag alone and
\* does not set the game-over flag.
C17_CollectStep ==
    LET hit == GetObjectAt(objects, player'.x, player'.y)
    IN  (/\ game = TreasureHunter
         /\ CommandTH(key').kind = "move"
         /\ hit # 0
         /\ objects[IF hit = 0 THEN 1 ELSE hit].symbol = "T") =>
            /\ events' = <<[type |-> "TreasureCollected"]>>
            /\ Len(trail') = 2
            /\ objects'[hit] = [objects[hit] EXCEPT !.active = FALSE]
            /\ Len(objects') \in {Len(objects), Len(objects) + 1}
            /\ Len(objects') > Len(objects) => objects'[Len(objects')].symbol = "X"
            /\ \A i \in DOMAIN objects : i # hit => objects'[i] = objects[i]
            /\ ~manager'.gameOver

C17_TreasureFrame == [][C17_CollectStep]_vars

\* C17 witness: a treasure was collected in an iteration that appended no
\* trap, after one that did
C17_Witness ==
    /\ game = TreasureHunter
    /\ EventsOf("TreasureCollected") # {}
    /\ trapCall.attempts = MaxAttempts
    /\ Len(objects) = FIELD_WIDTH * FIELD_HEIGHT
    /\ ~manager.gameOver

\* C18: treasure hunter: in every reachable state level >= 1, the win
\* threshold is 2 * level + 1 and 0 <= score < threshold; this holds of
\* every state the manager passes through within an iteration as well.
C18_ManagerInvariant ==
    game = TreasureHunter =>
        \A i \in DOMAIN trail \cup {0} :
            LET m == IF i = 0 THEN manager ELSE trail[i]
            IN  /\ m.level >= 1
                /\ m.treasuresToWin = 2 * m.level + 1
                /\ 0 <= m.score /\ m.score < m.treasuresToWin

\* C18 witness: level 2 was reached and a treasure collected on it
C18_Witness ==
    /\ game = TreasureHunter
    /\ manager.level = 2
    /\ manager.score = 1

\* the active objects of the field with the symbol
ActiveOf(objs, symbol) == {i \in DOMAIN objs : objs[i].active /\ objs[i].symbol = symbol}

\* C19, cells: no two active objects of the field are on one cell
C19_OnePerCell ==
    game = TreasureHunter =>
        \A i, j \in DOMAIN objects :
            (i # j /\ objects[i].active /\ objects[j].active) =>
                (objects[i].x # objects[j].x \/ objects[i].y # objects[j].y)

\* C19, treasures: an iteration does not raise the number of active treasures
C19_TreasureStep ==
    game = TreasureHunter =>
        Cardinality(ActiveOf(objects', "T")) <= Cardinality(ActiveOf(objects, "T"))

\* C19: treasure hunter: in every reachable state each cell holds at most
\* one active object (treasure or trap), and the number of active treasures
\* never increases.
C19_FieldInvariant == [](C19_OnePerCell) /\ [][C19_TreasureStep]_vars

\* C19 witness: two treasures were collected and a trap was appended after
\* each of them
C19_Witness ==
    /\ game = TreasureHunter
    /\ Len(objects) = FIELD_WIDTH * FIELD_HEIGHT + 1
    /\ Cardinality({i \in DOMAIN objects : ~objects[i].active /\ objects[i].symbol = "T"}) = 2
    /\ Cardinality(ActiveOf(objects, "X")) >= 2

\* the enemies of a sequence that are fast enemies
FastOf(seq) == {i \in DOMAIN seq : seq[i].kind = "FastEnemy"}

\* C20: space defender: a fast enemy (spawn row 3, speed 2) is on odd rows
\* only, at the collision checks and at the end of every frame, so it is
\* never on the player's row 20 and raises no PlayerHit event; only a tough
\* enemy ends the game by colliding with the player.
C20_FastEnemyMissesPlayer ==
    game = SpaceDefender =>
        /\ player.y = PlayerRow
        /\ \A i \in FastOf(enemies) : enemies[i].y % 2 = 1 /\ enemies[i].y # player.y
        /\ \A i \in FastOf(scene.enemies) :
              /\ scene.enemies[i].y % 2 = 1
              /\ ~CheckCollision(player, scene.enemies[i])
        /\ \A e \in EventsOf("PlayerHit") : events[e].entity.kind = "ToughEnemy"

\* C20 witness: a fast enemy in the player's column has gone from row 19 to
\* row 21, past the player, and the game goes on
C20_Witness ==
    /\ game = SpaceDefender
    /\ ~manager.gameOver
    /\ \E i \in FastOf(enemies) :
          /\ enemies[i].active
          /\ enemies[i].x = player.x
          /\ enemies[i].y = PlayerRow + 1

\* the active bullets of a sequence
ActiveBullets(bs) == {j \in DOMAIN bs : bs[j].active}

\* C21, the bullets on screen: any two active bullets are at least 5 rows
\* apart and so on different cells, every active bullet is in rows 2..18,
\* and at most 4 bullets are active
C21_Spread(bs) ==
    /\ \A i, j \in ActiveBullets(bs) :
          i # j =>
              /\ (bs[i].y - bs[j].y >= 5 \/ bs[j].y - bs[i].y >= 5)
              /\ ~(bs[i].x = bs[j].x /\ bs[i].y = bs[j].y)
    /\ \A j \in ActiveBullets(bs) : 2 <= bs[j].y /\ bs[j].y <= 18
    /\ Cardinality(ActiveBullets(bs)) <= 4

\* the bullets of the state that are still active after their next update
Survivors == {k \in DOMAIN bullets : bullets[k].active /\ bullets[k].y - 1 > 1}

\* C21, the cooldown: a frame that creates a bullet read the fire command
\* with the cooldown at 0 and leaves it at 4; a frame that starts with the
\* cooldown above 0 creates no bullet and lowers it by 1. Hence the frames
\* that create bullets are at least 5 apart.
C21_FireStep ==
    game = SpaceDefender =>
        LET created == Len(scene'.bullets) > Cardinality(Survivors)
        IN  /\ Len(scene'.bullets) \in {Cardinality(Survivors), Cardinality(Survivors) + 1}
            /\ created => /\ key' = "f"
                          /\ player.fireCooldown = 0
                          /\ player'.fireCooldown = FireCooldown - 1
            /\ player.fireCooldown > 0 =>
                  /\ ~created
                  /\ player'.fireCooldown = player.fireCooldown - 1

\* C21: space defender: a fire command creates a bullet only if at least 5
\* frames have passed since the previous bullet was created; so, at the
\* collision checks and at the end of every frame, two active bullets are
\* at least 5 rows apart, no two share a cell, the active bullets are in
\* rows 2..18 and at most 4 are active at once.
C21_FireCooldown ==
    /\ [](game = SpaceDefender => C21_Spread(scene.bullets) /\ C21_Spread(bullets))
    /\ [][C21_FireStep]_vars

\* C21 witness: four bullets are active at the collision checks, in rows
\* 18, 13, 8 and 3
C21_Witness ==
    /\ game = SpaceDefender
    /\ Cardinality(ActiveBullets(scene.bullets)) = 4
    /\ {scene.bullets[j].y : j \in ActiveBullets(scene.bullets)} = {18, 13, 8, 3}
    /\ key = "f"

=============================================================================
